---- MODULE Spec2Model ----
(***************************************************************************)
(* Model of lib_mqtt/src/mqtt_client_subscribe.c: the SUBSCRIBE encoder,   *)
(* the SUBACK decoder, the message-handler table and the guarded           *)
(* mqtt_subscribe / mqtt_resubscribe flows.                                *)
(***************************************************************************)
EXTENDS Integers, Sequences, FiniteSets, TLC

(***************************************************************************)
(* Bounds of the model.                                                    *)
(***************************************************************************)
\* number of execution contexts calling into the same client
NumCallers == 2
\* capacity of the handler table (MQTT_NUM_SUBSCRIBE_HANDLERS, scaled down)
MQTT_NUM_SUBSCRIBE_HANDLERS == 3
\* packet identifiers wrap after this value (MAX_PACKET_ID, scaled down)
MaxPacketId == 2
\* size of the client's write buffer in the flows
WriteBufSize == 8
\* size of the client's read buffer in the flows
ReadBufSize == 6
\* largest destination capacity tried on the encoder alone
MaxTxLen == 10
\* largest number of topics handed to the encoder alone
MaxTopicCount == 2
\* longest source buffer handed to the decoder alone
MaxRxLen == 6
\* largest maxExpectedQoSCount handed to the decoder alone
MaxExpectedQoS == 1
\* length of the long topic, whose remaining length needs a 2-byte field
LongTopicLen == 125

(***************************************************************************)
(* Values.                                                                 *)
(***************************************************************************)
NULL == "NULL"
\* a null buffer pointer and a null pointer to an integer output
NullBuf == << -1 >>
NullInt == -1

MQTT_SUCCESS == "MQTT_SUCCESS"
MQTT_FAILURE == "MQTT_FAILURE"
NULL_VALUE_ERROR == "NULL_VALUE_ERROR"
MQTT_TX_BUFFER_TOO_SHORT_ERROR == "MQTT_TX_BUFFER_TOO_SHORT_ERROR"
MQTT_RX_BUFFER_TOO_SHORT_ERROR == "MQTT_RX_BUFFER_TOO_SHORT_ERROR"
MQTT_MAX_SUBSCRIPTIONS_REACHED_ERROR == "MQTT_MAX_SUBSCRIPTIONS_REACHED_ERROR"
NETWORK_DISCONNECTED_ERROR == "NETWORK_DISCONNECTED_ERROR"
MQTT_CLIENT_NOT_IDLE_ERROR == "MQTT_CLIENT_NOT_IDLE_ERROR"
MQTT_UNEXPECTED_CLIENT_STATE_ERROR == "MQTT_UNEXPECTED_CLIENT_STATE_ERROR"
MQTT_REQUEST_TIMEOUT_ERROR == "MQTT_REQUEST_TIMEOUT_ERROR"
MQTT_DECODE_REMAINING_LENGTH_ERROR == "MQTT_DECODE_REMAINING_LENGTH_ERROR"
NETWORK_SSL_WRITE_ERROR == "NETWORK_SSL_WRITE_ERROR"

CLIENT_STATE_CONNECTED_IDLE == "CONNECTED_IDLE"
CLIENT_STATE_CONNECTED_YIELD_IN_PROGRESS == "CONNECTED_YIELD_IN_PROGRESS"
CLIENT_STATE_CONNECTED_SUBSCRIBE_IN_PROGRESS == "CONNECTED_SUBSCRIBE_IN_PROGRESS"
CLIENT_STATE_CONNECTED_RESUBSCRIBE_IN_PROGRESS == "CONNECTED_RESUBSCRIBE_IN_PROGRESS"
CLIENT_STATE_CONNECTED_WAIT_FOR_CB_RETURN == "CONNECTED_WAIT_FOR_CB_RETURN"
CLIENT_STATE_DISCONNECTED_ERROR == "DISCONNECTED_ERROR"

\* MQTT control packet types (high nibble of the fixed header)
SUBSCRIBE == 8
SUBACK == 9
QOS0 == 0
QOS1 == 1
QOS2 == 2

(***************************************************************************)
(* Packet helpers of mqtt_client_common_internal, used by the codec.       *)
(***************************************************************************)
RECURSIVE mqtt_internal_write_len_to_buffer(_)
\* the remaining-length field: 7 data bits per byte, bit 7 = continuation
mqtt_internal_write_len_to_buffer(len) ==
    IF len \div 128 > 0
    THEN <<(len % 128) + 128>> \o mqtt_internal_write_len_to_buffer(len \div 128)
    ELSE <<len % 128>>

\* 1 (fixed header) + size of the remaining-length field + remaining length
mqtt_internal_get_final_packet_length_from_remaining_length(rem_len) ==
    1 + Len(mqtt_internal_write_len_to_buffer(rem_len)) + rem_len

\* fixed header byte: type in the high nibble, dup bit 3, qos bits 2..1, retain bit 0
mqtt_internal_init_header(type, qos, dup, retained) ==
    type * 16 + dup * 8 + qos * 2 + retained

mqtt_internal_write_uint_16(v) == << (v \div 256) % 256, v % 256 >>

\* the bytes a topic name pointer points to: "a", "a/b" and a long run of 'x'
TopicBytes(ptr) ==
    CASE ptr = "a" -> << 97 >>
      [] ptr = "a/b" -> << 97, 47, 98 >>
      [] ptr = "xx..x" -> [i \in 1..LongTopicLen |-> 120]

\* 2-byte big-endian length prefix, then the first len bytes of the string
mqtt_internal_write_utf8_string(str, len) ==
    mqtt_internal_write_uint_16(len) \o SubSeq(TopicBytes(str), 1, len)

\* the bytes `bytes` stored from the start of buf; the rest of buf is kept
StoreAt0(buf, bytes) ==
    [i \in 1..Len(buf) |-> IF i <= Len(bytes) THEN bytes[i] ELSE buf[i]]

(***************************************************************************)
(* _mqtt_serialize_subscribe (lines 42-87).                                *)
(* pTxBuf is the destination (a sequence of txBufLen bytes) or NullBuf,    *)
(* topics the list of [name, len, qos], serializedLen the value behind     *)
(* pSerializedLen before the call (NullInt for a null pointer).            *)
(* Result: [rc, buf, serializedLen], the destination and *pSerializedLen   *)
(* after the call.                                                         *)
(***************************************************************************)
RECURSIVE SubscribeRemLen(_, _)
\* lines 57-61: rem_len = 2 + sum of (len + 2 + 1) over the first itr topics
SubscribeRemLen(topics, itr) ==
    IF itr = 0 THEN 2
    ELSE SubscribeRemLen(topics, itr - 1) + (topics[itr].len + 2 + 1)

RECURSIVE SubscribePayload_QoSFirst(_, _)
\* variant: the requested QoS is written in front of the topic string
SubscribePayload_QoSFirst(topics, itr) ==
    IF itr = 0 THEN << >>
    ELSE SubscribePayload_QoSFirst(topics, itr - 1)
            \o << topics[itr].qos >>
            \o mqtt_internal_write_utf8_string(topics[itr].name, topics[itr].len)

RECURSIVE SubscribePayload(_, _)
\* lines 79-82: per topic the utf8 string and one byte of requested QoS
SubscribePayload(topics, itr) ==
    IF itr = 0 THEN << >>
    ELSE SubscribePayload(topics, itr - 1)
            \o mqtt_internal_write_utf8_string(topics[itr].name, topics[itr].len)
            \o << topics[itr].qos >>

\* lines 67-82: the bytes written through ptr, in order
SubscribeBytes(dup, packetId, topics) ==
    << mqtt_internal_init_header(SUBSCRIBE, QOS1, dup, 0) >>
        \o mqtt_internal_write_len_to_buffer(SubscribeRemLen(topics, Len(topics)))
        \o mqtt_internal_write_uint_16(packetId)
        \o SubscribePayload(topics, Len(topics))

\* variant: the header byte is written before the capacity is tested
mqtt_serialize_subscribe_HeaderFirst(pTxBuf, txBufLen, dup, packetId, topics, serializedLen) ==
    LET rem_len == SubscribeRemLen(topics, Len(topics))
        bytes == SubscribeBytes(dup, packetId, topics)
    IN  IF NullBuf = pTxBuf \/ NullInt = serializedLen
        THEN [rc |-> NULL_VALUE_ERROR, buf |-> pTxBuf, serializedLen |-> serializedLen]
        ELSE IF mqtt_internal_get_final_packet_length_from_remaining_length(rem_len) > txBufLen
        THEN [rc |-> MQTT_TX_BUFFER_TOO_SHORT_ERROR, buf |-> StoreAt0(pTxBuf, SubSeq(bytes, 1, 1)),
              serializedLen |-> serializedLen]
        ELSE [rc |-> MQTT_SUCCESS, buf |-> StoreAt0(pTxBuf, bytes),
              serializedLen |-> Len(bytes)]

mqtt_serialize_subscribe(pTxBuf, txBufLen, dup, packetId, topics, serializedLen) ==
    LET rem_len == SubscribeRemLen(topics, Len(topics))
        bytes == SubscribeBytes(dup, packetId, topics)
    IN  IF NullBuf = pTxBuf \/ NullInt = serializedLen
        THEN [rc |-> NULL_VALUE_ERROR, buf |-> pTxBuf, serializedLen |-> serializedLen]
        ELSE IF mqtt_internal_get_final_packet_length_from_remaining_length(rem_len) > txBufLen
        THEN [rc |-> MQTT_TX_BUFFER_TOO_SHORT_ERROR, buf |-> pTxBuf,
              serializedLen |-> serializedLen]
        ELSE [rc |-> MQTT_SUCCESS, buf |-> StoreAt0(pTxBuf, bytes),
              serializedLen |-> Len(bytes)]

(***************************************************************************)
(* _mqtt_deserialize_suback (lines 100-154).                               *)
(* pRxBuf holds rxBufLen bytes; a read at an offset >= rxBufLen is outside *)
(* the buffer and yields the byte `beyond`, whatever memory holds there.   *)
(* pPacketId, pGrantedQoSCount, pGrantedQoSs are the values behind the     *)
(* output pointers before the call (NullInt, NullBuf for a null pointer).  *)
(* Result: [rc, packetId, count, grantedQoSs, reads]: the outputs after    *)
(* the call (grantedQoSs as the list of entries stored, in index order)    *)
(* and the set of buffer offsets read.                                     *)
(***************************************************************************)
ByteAt(pRxBuf, rxBufLen, beyond, off) ==
    IF off < rxBufLen /\ off < Len(pRxBuf) THEN pRxBuf[off + 1] ELSE beyond

RECURSIVE DecodeRemLenFrom(_, _, _, _, _, _, _)
\* mqtt_internal_decode_remaining_length_from_buffer: at most 4 length bytes
DecodeRemLenFrom(pRxBuf, rxBufLen, beyond, off, len, multiplier, value) ==
    IF len + 1 > 4
    THEN [rc |-> MQTT_DECODE_REMAINING_LENGTH_ERROR, decodedLen |-> value,
          readBytesLen |-> len]
    ELSE LET encodedByte == ByteAt(pRxBuf, rxBufLen, beyond, off)
             v == value + (encodedByte % 128) * multiplier
         IN  IF encodedByte \div 128 # 0
             THEN DecodeRemLenFrom(pRxBuf, rxBufLen, beyond, off + 1, len + 1,
                                   multiplier * 128, v)
             ELSE [rc |-> MQTT_SUCCESS, decodedLen |-> v, readBytesLen |-> len + 1]

mqtt_internal_decode_remaining_length_from_buffer(pRxBuf, rxBufLen, beyond, off) ==
    DecodeRemLenFrom(pRxBuf, rxBufLen, beyond, off, 0, 1, 0)

\* variant: four bytes are taken to be enough
SubackBufferTooShort_Four(rxBufLen) == 4 > rxBufLen

\* line 122: the test that the buffer cannot hold the shortest SUBACK
SubackBufferTooShort(rxBufLen) == 5 > rxBufLen

\* variant: the packet type is not tested
SubackTypeMismatch_NotTested(header) == FALSE

\* line 127: header.bits.type is the high nibble of the first byte
SubackTypeMismatch(header) == SUBACK # header \div 16

\* line 147: the bound test of the return-code loop
SubackCountExceeded(count, maxExpectedQoSCount) == count > maxExpectedQoSCount

RECURSIVE SubackReadCodes(_, _, _, _, _, _, _, _)
\* lines 146-151: curData and endData as offsets into pRxBuf
SubackReadCodes(pRxBuf, rxBufLen, beyond, maxExpectedQoSCount, curData, endData, granted, reads) ==
    IF curData < endData
    THEN IF SubackCountExceeded(Len(granted), maxExpectedQoSCount)
         THEN [rc |-> MQTT_FAILURE, grantedQoSs |-> granted, reads |-> reads]
         ELSE SubackReadCodes(pRxBuf, rxBufLen, beyond, maxExpectedQoSCount,
                              curData + 1, endData,
                              Append(granted, ByteAt(pRxBuf, rxBufLen, beyond, curData)),
                              reads \cup {curData})
    ELSE [rc |-> MQTT_SUCCESS, grantedQoSs |-> granted, reads |-> reads]

mqtt_deserialize_suback(pPacketId, maxExpectedQoSCount, pGrantedQoSCount, pGrantedQoSs, pRxBuf, rxBufLen, beyond) ==
    LET unchanged(rc, reads) ==
            [rc |-> rc, packetId |-> pPacketId, count |-> pGrantedQoSCount,
             grantedQoSs |-> << >>, reads |-> reads]
        header == ByteAt(pRxBuf, rxBufLen, beyond, 0)
        dec == mqtt_internal_decode_remaining_length_from_buffer(pRxBuf, rxBufLen, beyond, 1)
        lenReads == {0} \cup {o \in 1..4 : o <= dec.readBytesLen}
        curData == 1 + dec.readBytesLen
        endData == curData + dec.decodedLen
        id == ByteAt(pRxBuf, rxBufLen, beyond, curData) * 256
                + ByteAt(pRxBuf, rxBufLen, beyond, curData + 1)
        idReads == lenReads \cup {curData, curData + 1}
        loop == SubackReadCodes(pRxBuf, rxBufLen, beyond, maxExpectedQoSCount,
                                curData + 2, endData, << >>, idReads)
    IN  IF NullInt = pPacketId \/ NullInt = pGrantedQoSCount \/ NullBuf = pGrantedQoSs
        THEN unchanged(NULL_VALUE_ERROR, {})
        ELSE IF SubackBufferTooShort(rxBufLen)
        THEN unchanged(MQTT_RX_BUFFER_TOO_SHORT_ERROR, {})
        ELSE IF SubackTypeMismatch(header)
        THEN unchanged(MQTT_FAILURE, {0})
        ELSE IF MQTT_SUCCESS # dec.rc
        THEN unchanged(dec.rc, lenReads)
        ELSE IF endData - curData < 2
        THEN unchanged(MQTT_FAILURE, lenReads)
        ELSE [rc |-> loop.rc, packetId |-> id, count |-> Len(loop.grantedQoSs),
              grantedQoSs |-> loop.grantedQoSs, reads |-> loop.reads]

(***************************************************************************)
(* The client and its callers.                                             *)
(***************************************************************************)
VARIABLES
    clientState,      \* pClient->clientStatus.clientState
    isConnected,      \* what mqtt_is_client_connected reports
    messageHandlers,  \* pClient->clientData.messageHandlers[]
    nextPacketId,     \* pClient->clientData.nextPacketId
    writeBuf,         \* pClient->clientData.writeBuf
    readBuf,          \* pClient->clientData.readBuf
    pc,               \* per caller: where it stands inside its call
    frames,           \* per caller: arguments and locals of its call
    last,             \* the call that returned in the last step, if any
    codecIn,          \* codec alone: the arguments of one codec call
    codecOut          \* codec alone: what that call produced

clientVars == <<clientState, isConnected, messageHandlers, nextPacketId, writeBuf, readBuf>>
codecVars == <<codecIn, codecOut>>
vars == <<clientState, isConnected, messageHandlers, nextPacketId, writeBuf, readBuf,
          pc, frames, last, codecIn, codecOut>>

Callers == 1..NumCallers
HandlerIndex == 0..(MQTT_NUM_SUBSCRIBE_HANDLERS - 1)

\* the topic names callers subscribe to
TopicNames == {"a", "a/b"}
FlowQoS == {QOS0, QOS1}

\* SUBACK packets the broker may answer with: id 1 granted QoS1; id 2 refused
\* (0x80); remaining length 1, too short to hold a packet identifier
SubackGranted == << 144, 3, 0, 1, 1 >>
SubackRefused == << 144, 3, 0, 2, 128 >>
SubackTruncated == << 144, 1, 0 >>
RxPackets == {SubackGranted, SubackRefused, SubackTruncated}
BeyondBytes == {0, 255}

SendErrors == {NETWORK_SSL_WRITE_ERROR}
WaitErrors == {MQTT_REQUEST_TIMEOUT_ERROR}

\* a packet as it lies in a buffer of the given size, the rest zero
InBuffer(pkt, size) == [i \in 1..size |-> IF i <= Len(pkt) THEN pkt[i] ELSE 0]

FreeHandler ==
    [topicName |-> NULL, topicNameLen |-> 0, qos |-> QOS0,
     pApplicationHandler |-> NULL, pApplicationHandlerData |-> NULL]

NoFrame ==
    [op |-> "none", pClient |-> NULL, pTopicName |-> NULL, topicNameLen |-> 0, qos |-> QOS0,
     pApplicationHandler |-> NULL, pApplicationHandlerData |-> NULL,
     clientState |-> NULL, rc |-> MQTT_SUCCESS, serializedLen |-> 0,
     index |-> 0, itr |-> 0, existingSubCount |-> 0, timer |-> 0,
     handlersBefore |-> << >>, stage |-> "none", exch |-> << >>]

NoCall == [op |-> "none"]
NoCodec == [fn |-> "none"]

\* the record of a call at the moment it returns
CallRecord(c, f, rc, forward, stateAfter, handlersAfter) ==
    [op |-> f.op, caller |-> c, rc |-> rc, forward |-> forward,
     pClient |-> f.pClient, pTopicName |-> f.pTopicName, topicNameLen |-> f.topicNameLen, qos |-> f.qos,
     pApplicationHandler |-> f.pApplicationHandler,
     pApplicationHandlerData |-> f.pApplicationHandlerData,
     stateBefore |-> f.clientState, stateAfter |-> stateAfter,
     handlersBefore |-> f.handlersBefore, handlersAfter |-> handlersAfter,
     index |-> f.index, itr |-> f.itr, existingSubCount |-> f.existingSubCount,
     stage |-> f.stage, exch |-> f.exch, innerRc |-> f.rc]

Returns(c, rec) ==
    /\ pc' = [pc EXCEPT ![c] = "ready"]
    /\ frames' = [frames EXCEPT ![c] = NoFrame]
    /\ last' = rec

Goes(c, where, f) ==
    /\ pc' = [pc EXCEPT ![c] = where]
    /\ frames' = [frames EXCEPT ![c] = f]
    /\ last' = NoCall

(***************************************************************************)
(* Collaborators of mqtt_client_common_internal.                           *)
(***************************************************************************)
\* compare-and-transition of the client state
mqtt_set_client_state(state, expectedCurrentState, newState) ==
    IF state = expectedCurrentState
    THEN [rc |-> MQTT_SUCCESS, state |-> newState]
    ELSE [rc |-> MQTT_UNEXPECTED_CLIENT_STATE_ERROR, state |-> state]

\* the next packet identifier, wrapping to 1 after the largest one
mqtt_get_next_packet_id(id) == IF id >= MaxPacketId THEN 1 ELSE id + 1

(***************************************************************************)
(* _mqtt_get_free_message_handler_index (lines 157-169).                   *)
(***************************************************************************)
RECURSIVE FreeIndexFrom(_, _)
FreeIndexFrom(handlers, itr) ==
    IF itr < MQTT_NUM_SUBSCRIBE_HANDLERS
    THEN IF handlers[itr].topicName = NULL THEN itr
         ELSE FreeIndexFrom(handlers, itr + 1)
    ELSE itr

RECURSIVE FreeIndexDownFrom(_, _)
FreeIndexDownFrom(handlers, itr) ==
    IF itr < 0 THEN MQTT_NUM_SUBSCRIBE_HANDLERS
    ELSE IF handlers[itr].topicName = NULL THEN itr
    ELSE FreeIndexDownFrom(handlers, itr - 1)

\* variant: the scan runs from the last slot down and yields the highest free index
mqtt_get_free_message_handler_index_Highest(handlers) ==
    FreeIndexDownFrom(handlers, MQTT_NUM_SUBSCRIBE_HANDLERS - 1)

mqtt_get_free_message_handler_index(handlers) == FreeIndexFrom(handlers, 0)

(***************************************************************************)
(* mqtt_subscribe (lines 272-306) and _mqtt_internal_subscribe (187-254).  *)
(***************************************************************************)
\* variant: the client state is not tested
mqtt_subscribe_check_AnyState(pClient, pTopicName, pApplicationHandler, connected, state) ==
    IF NULL = pClient \/ NULL = pTopicName \/ NULL = pApplicationHandler
    THEN NULL_VALUE_ERROR
    ELSE IF ~connected
    THEN NETWORK_DISCONNECTED_ERROR
    ELSE MQTT_SUCCESS

\* lines 279-290: the checks made before any state change
mqtt_subscribe_check(pClient, pTopicName, pApplicationHandler, connected, state) ==
    IF NULL = pClient \/ NULL = pTopicName \/ NULL = pApplicationHandler
    THEN NULL_VALUE_ERROR
    ELSE IF ~connected
    THEN NETWORK_DISCONNECTED_ERROR
    ELSE IF CLIENT_STATE_CONNECTED_IDLE # state
            /\ CLIENT_STATE_CONNECTED_WAIT_FOR_CB_RETURN # state
    THEN MQTT_CLIENT_NOT_IDLE_ERROR
    ELSE MQTT_SUCCESS

\* lines 272-290: the call is made; it returns at once or has captured the state
mqtt_subscribe_enter(c, pClient, pTopicName, topicNameLen, qos, pApplicationHandler, pApplicationHandlerData) ==
    /\ pc[c] = "ready"
    /\ LET rc == mqtt_subscribe_check(pClient, pTopicName, pApplicationHandler,
                                      isConnected, clientState)
           f == [NoFrame EXCEPT !.op = "subscribe", !.pClient = pClient,
                                !.pTopicName = pTopicName,
                                !.topicNameLen = topicNameLen, !.qos = qos,
                                !.pApplicationHandler = pApplicationHandler,
                                !.pApplicationHandlerData = pApplicationHandlerData,
                                !.clientState = clientState,
                                !.stage = "precondition"]
       IN  IF MQTT_SUCCESS # rc
           THEN Returns(c, CallRecord(c, [f EXCEPT !.handlersBefore = messageHandlers],
                                      rc, FALSE, clientState, messageHandlers))
           ELSE Goes(c, "sub_set", f)
    /\ UNCHANGED <<clientVars, codecVars>>

\* variant: the result of the forward transition is not tested
mqtt_subscribe_set_IgnoreRc(c) ==
    /\ pc[c] = "sub_set"
    /\ clientState' = CLIENT_STATE_CONNECTED_SUBSCRIBE_IN_PROGRESS
    /\ Goes(c, "sub_serialize", [frames[c] EXCEPT !.handlersBefore = messageHandlers, !.stage = "set"])
    /\ UNCHANGED <<isConnected, messageHandlers, nextPacketId, writeBuf, readBuf, codecVars>>

\* lines 292-295: the forward transition to subscribe-in-progress
mqtt_subscribe_set(c) ==
    /\ pc[c] = "sub_set"
    /\ LET f == frames[c]
           r == mqtt_set_client_state(clientState, f.clientState,
                                      CLIENT_STATE_CONNECTED_SUBSCRIBE_IN_PROGRESS)
       IN  /\ clientState' = r.state
           /\ IF MQTT_SUCCESS # r.rc
              THEN Returns(c, CallRecord(c, [f EXCEPT !.handlersBefore = messageHandlers,
                                                      !.stage = "set"],
                                         r.rc, FALSE, r.state, messageHandlers))
              ELSE Goes(c, "sub_serialize",
                        [f EXCEPT !.handlersBefore = messageHandlers, !.stage = "set"])
    /\ UNCHANGED <<isConnected, messageHandlers, nextPacketId, writeBuf, readBuf, codecVars>>

\* variant: the test is strict
NoFreeHandler_Strict(indexOfFreeMessageHandler) ==
    MQTT_NUM_SUBSCRIBE_HANDLERS < indexOfFreeMessageHandler

\* line 213: the test that the table has no free slot
NoFreeHandler(indexOfFreeMessageHandler) ==
    MQTT_NUM_SUBSCRIBE_HANDLERS <= indexOfFreeMessageHandler

\* lines 198-215: deadline, packet identifier, serialization, free slot
mqtt_internal_subscribe_serialize(c) ==
    /\ pc[c] = "sub_serialize"
    /\ LET f == [frames[c] EXCEPT !.timer = @ + 1]
           txPacketId == mqtt_get_next_packet_id(nextPacketId)
           ser == mqtt_serialize_subscribe(writeBuf, WriteBufSize, 0, txPacketId,
                      << [name |-> f.pTopicName, len |-> f.topicNameLen, qos |-> f.qos] >>,
                      0)
           indexOfFreeMessageHandler == mqtt_get_free_message_handler_index(messageHandlers)
       IN  /\ nextPacketId' = txPacketId
           /\ writeBuf' = ser.buf
           /\ IF MQTT_SUCCESS # ser.rc
              THEN Goes(c, "sub_restore", [f EXCEPT !.rc = ser.rc, !.stage = "serialize"])
              ELSE IF NoFreeHandler(indexOfFreeMessageHandler)
              THEN Goes(c, "sub_restore",
                        [f EXCEPT !.rc = MQTT_MAX_SUBSCRIPTIONS_REACHED_ERROR,
                                  !.serializedLen = ser.serializedLen,
                                  !.index = indexOfFreeMessageHandler,
                                  !.stage = "table"])
              ELSE Goes(c, "sub_send",
                        [f EXCEPT !.serializedLen = ser.serializedLen,
                                  !.index = indexOfFreeMessageHandler])
    /\ UNCHANGED <<clientState, isConnected, messageHandlers, readBuf, codecVars>>

\* lines 217-221: mqtt_internal_send_packet hands the packet to the transport
mqtt_internal_subscribe_send(c, rc) ==
    /\ pc[c] = "sub_send"
    /\ LET f == frames[c]
           g == [f EXCEPT !.exch = Append(f.exch,
                     <<"send", f.index, SubSeq(writeBuf, 1, f.serializedLen), rc, f.timer>>)]
       IN  IF MQTT_SUCCESS # rc
           THEN Goes(c, "sub_restore", [g EXCEPT !.rc = rc, !.stage = "send"])
           ELSE Goes(c, "sub_wait", g)
    /\ UNCHANGED <<clientVars, codecVars>>

\* lines 223-227: mqtt_internal_wait_for_read; on success the SUBACK is in readBuf
mqtt_internal_subscribe_wait(c, rc, pkt) ==
    /\ pc[c] = "sub_wait"
    /\ LET f == frames[c]
           g == [f EXCEPT !.exch = Append(f.exch, <<"wait", f.index, rc, f.timer>>)]
       IN  IF MQTT_SUCCESS # rc
           THEN /\ Goes(c, "sub_restore", [g EXCEPT !.rc = rc, !.stage = "wait"])
                /\ UNCHANGED readBuf
           ELSE /\ Goes(c, "sub_decode", g)
                /\ readBuf' = InBuffer(pkt, ReadBufSize)
    /\ UNCHANGED <<clientState, isConnected, messageHandlers, nextPacketId, writeBuf,
                   codecVars>>

\* variant: the assignment of qos is missing; the slot keeps the QoS it had
RegisterHandler_NoQoS(handlers, index, f) ==
    [handlers EXCEPT ![index] =
        [topicName |-> f.pTopicName, topicNameLen |-> f.topicNameLen, qos |-> handlers[index].qos,
         pApplicationHandler |-> f.pApplicationHandler,
         pApplicationHandlerData |-> f.pApplicationHandlerData]]

\* lines 243-251: the slot is filled from the call's arguments
RegisterHandler(handlers, index, f) ==
    [handlers EXCEPT ![index] =
        [topicName |-> f.pTopicName, topicNameLen |-> f.topicNameLen, qos |-> f.qos,
         pApplicationHandler |-> f.pApplicationHandler,
         pApplicationHandlerData |-> f.pApplicationHandlerData]]

\* variant: the slot is filled before the result of the decode is tested
mqtt_internal_subscribe_decode_RegistersFirst(c, beyond) ==
    /\ pc[c] = "sub_decode"
    /\ LET f == frames[c]
           d == mqtt_deserialize_suback(0, 1, 0, <<QOS0, QOS0, QOS0>>, readBuf,
                                        ReadBufSize, beyond)
           g == [f EXCEPT !.exch = Append(f.exch,
                     <<"suback", f.index, d.rc, d.packetId, d.grantedQoSs>>)]
       IN  /\ messageHandlers' = RegisterHandler(messageHandlers, f.index, f)
           /\ IF MQTT_SUCCESS # d.rc
              THEN Goes(c, "sub_restore", [g EXCEPT !.rc = d.rc, !.stage = "decode"])
              ELSE Goes(c, "sub_restore",
                        [g EXCEPT !.rc = MQTT_SUCCESS, !.stage = "registered"])
    /\ UNCHANGED <<clientState, isConnected, nextPacketId, writeBuf, readBuf, codecVars>>

\* variant: the test of lines 237-241 is active; a SUBACK with another packet
\* identifier than the one sent is an error
mqtt_internal_subscribe_decode_CheckId(c, beyond) ==
    /\ pc[c] = "sub_decode"
    /\ LET f == frames[c]
           d == mqtt_deserialize_suback(0, 1, 0, <<QOS0, QOS0, QOS0>>, readBuf,
                                        ReadBufSize, beyond)
           g == [f EXCEPT !.exch = Append(f.exch,
                     <<"suback", f.index, d.rc, d.packetId, d.grantedQoSs>>)]
       IN  IF MQTT_SUCCESS # d.rc
           THEN /\ Goes(c, "sub_restore", [g EXCEPT !.rc = d.rc, !.stage = "decode"])
                /\ UNCHANGED messageHandlers
           ELSE IF nextPacketId # d.packetId
           THEN /\ Goes(c, "sub_restore",
                        [g EXCEPT !.rc = "RX_MESSAGE_INVALID_ERROR", !.stage = "decode"])
                /\ UNCHANGED messageHandlers
           ELSE /\ Goes(c, "sub_restore",
                        [g EXCEPT !.rc = MQTT_SUCCESS, !.stage = "registered"])
                /\ messageHandlers' = RegisterHandler(messageHandlers, f.index, f)
    /\ UNCHANGED <<clientState, isConnected, nextPacketId, writeBuf, readBuf, codecVars>>

\* lines 229-253: SUBACK decoding, then registration
mqtt_internal_subscribe_decode(c, beyond) ==
    /\ pc[c] = "sub_decode"
    /\ LET f == frames[c]
           d == mqtt_deserialize_suback(0, 1, 0, <<QOS0, QOS0, QOS0>>, readBuf,
                                        ReadBufSize, beyond)
           g == [f EXCEPT !.exch = Append(f.exch,
                     <<"suback", f.index, d.rc, d.packetId, d.grantedQoSs>>)]
       IN  IF MQTT_SUCCESS # d.rc
           THEN /\ Goes(c, "sub_restore", [g EXCEPT !.rc = d.rc, !.stage = "decode"])
                /\ UNCHANGED messageHandlers
           ELSE /\ Goes(c, "sub_restore",
                        [g EXCEPT !.rc = MQTT_SUCCESS, !.stage = "registered"])
                /\ messageHandlers' = RegisterHandler(messageHandlers, f.index, f)
    /\ UNCHANGED <<clientState, isConnected, nextPacketId, writeBuf, readBuf, codecVars>>

\* variant: an error of the reverse transition replaces the inner error
mqtt_subscribe_restore_LastError(c) ==
    /\ pc[c] = "sub_restore"
    /\ LET f == frames[c]
           r == mqtt_set_client_state(clientState,
                                      CLIENT_STATE_CONNECTED_SUBSCRIBE_IN_PROGRESS,
                                      f.clientState)
           subRc == IF MQTT_SUCCESS # r.rc THEN r.rc ELSE f.rc
       IN  /\ clientState' = r.state
           /\ Returns(c, CallRecord(c, f, subRc, TRUE, r.state, messageHandlers))
    /\ UNCHANGED <<isConnected, messageHandlers, nextPacketId, writeBuf, readBuf, codecVars>>

\* variant: the reverse transition always goes to idle
mqtt_subscribe_restore_ToIdle(c) ==
    /\ pc[c] = "sub_restore"
    /\ LET f == frames[c]
           r == mqtt_set_client_state(clientState,
                                      CLIENT_STATE_CONNECTED_SUBSCRIBE_IN_PROGRESS,
                                      CLIENT_STATE_CONNECTED_IDLE)
           subRc == IF MQTT_SUCCESS = f.rc /\ MQTT_SUCCESS # r.rc THEN r.rc ELSE f.rc
       IN  /\ clientState' = r.state
           /\ Returns(c, CallRecord(c, f, subRc, TRUE, r.state, messageHandlers))
    /\ UNCHANGED <<isConnected, messageHandlers, nextPacketId, writeBuf, readBuf, codecVars>>

\* lines 300-305: the reverse transition; the call returns
mqtt_subscribe_restore(c) ==
    /\ pc[c] = "sub_restore"
    /\ LET f == frames[c]
           r == mqtt_set_client_state(clientState,
                                      CLIENT_STATE_CONNECTED_SUBSCRIBE_IN_PROGRESS,
                                      f.clientState)
           subRc == IF MQTT_SUCCESS = f.rc /\ MQTT_SUCCESS # r.rc THEN r.rc ELSE f.rc
       IN  /\ clientState' = r.state
           /\ Returns(c, CallRecord(c, f, subRc, TRUE, r.state, messageHandlers))
    /\ UNCHANGED <<isConnected, messageHandlers, nextPacketId, writeBuf, readBuf, codecVars>>

(***************************************************************************)
(* mqtt_resubscribe (lines 384-416) and _mqtt_internal_resubscribe         *)
(* (lines 321-369).                                                        *)
(***************************************************************************)
\* variant: waiting-for-callback-return is admitted, as in mqtt_subscribe
mqtt_resubscribe_check_LikeSubscribe(pClient, connected, state) ==
    IF NULL = pClient
    THEN NULL_VALUE_ERROR
    ELSE IF FALSE = connected
    THEN NETWORK_DISCONNECTED_ERROR
    ELSE IF CLIENT_STATE_CONNECTED_IDLE # state
            /\ CLIENT_STATE_CONNECTED_WAIT_FOR_CB_RETURN # state
    THEN MQTT_CLIENT_NOT_IDLE_ERROR
    ELSE MQTT_SUCCESS

\* variant: the connection is tested before the client pointer
mqtt_resubscribe_check_ConnectedFirst(pClient, connected, state) ==
    IF FALSE = connected
    THEN NETWORK_DISCONNECTED_ERROR
    ELSE IF NULL = pClient
    THEN NULL_VALUE_ERROR
    ELSE IF CLIENT_STATE_CONNECTED_IDLE # state
    THEN MQTT_CLIENT_NOT_IDLE_ERROR
    ELSE MQTT_SUCCESS

\* lines 389-399: the checks made before any state change
mqtt_resubscribe_check(pClient, connected, state) ==
    IF NULL = pClient
    THEN NULL_VALUE_ERROR
    ELSE IF FALSE = connected
    THEN NETWORK_DISCONNECTED_ERROR
    ELSE IF CLIENT_STATE_CONNECTED_IDLE # state
    THEN MQTT_CLIENT_NOT_IDLE_ERROR
    ELSE MQTT_SUCCESS

\* lines 384-399: the call is made; it returns at once or goes on to line 401
mqtt_resubscribe_enter(c, pClient) ==
    /\ pc[c] = "ready"
    /\ LET rc == mqtt_resubscribe_check(pClient, isConnected, clientState)
           f == [NoFrame EXCEPT !.op = "resubscribe", !.pClient = pClient,
                                !.clientState = clientState,
                                !.stage = "precondition"]
       IN  IF MQTT_SUCCESS # rc
           THEN Returns(c, CallRecord(c, [f EXCEPT !.handlersBefore = messageHandlers],
                                      rc, FALSE, clientState, messageHandlers))
           ELSE Goes(c, "resub_set", f)
    /\ UNCHANGED <<clientVars, codecVars>>

\* lines 401-405: the forward transition idle -> resubscribe-in-progress
mqtt_resubscribe_set(c) ==
    /\ pc[c] = "resub_set"
    /\ LET f == frames[c]
           r == mqtt_set_client_state(clientState, CLIENT_STATE_CONNECTED_IDLE,
                                      CLIENT_STATE_CONNECTED_RESUBSCRIBE_IN_PROGRESS)
       IN  /\ clientState' = r.state
           /\ IF MQTT_SUCCESS # r.rc
              THEN Returns(c, CallRecord(c, [f EXCEPT !.handlersBefore = messageHandlers,
                                                      !.stage = "set"],
                                         r.rc, FALSE, r.state, messageHandlers))
              ELSE Goes(c, "resub_begin",
                        [f EXCEPT !.handlersBefore = messageHandlers, !.stage = "set"])
    /\ UNCHANGED <<isConnected, messageHandlers, nextPacketId, writeBuf, readBuf, codecVars>>

\* lines 330-333: the number of entries to replay
mqtt_internal_resubscribe_begin(c) ==
    /\ pc[c] = "resub_begin"
    /\ Goes(c, "resub_loop",
            [frames[c] EXCEPT !.itr = 0,
                !.existingSubCount = mqtt_get_free_message_handler_index(messageHandlers)])
    /\ UNCHANGED <<clientVars, codecVars>>

\* variant: every request is built from the first entry of the table
mqtt_internal_resubscribe_serialize_FirstEntry(c) ==
    /\ pc[c] = "resub_loop"
    /\ LET f == frames[c]
           h == messageHandlers[0]
           packetId == mqtt_get_next_packet_id(nextPacketId)
           ser == mqtt_serialize_subscribe(writeBuf, WriteBufSize, 0, packetId,
                      << [name |-> h.topicName, len |-> h.topicNameLen, qos |-> h.qos] >>,
                      f.serializedLen)
       IN  IF f.itr < f.existingSubCount
           THEN /\ nextPacketId' = packetId
                /\ writeBuf' = ser.buf
                /\ IF MQTT_SUCCESS # ser.rc
                   THEN Goes(c, "resub_restore",
                             [f EXCEPT !.timer = @ + 1, !.rc = ser.rc, !.stage = "serialize"])
                   ELSE Goes(c, "resub_send",
                             [f EXCEPT !.timer = @ + 1, !.serializedLen = ser.serializedLen])
           ELSE /\ Goes(c, "resub_restore", [f EXCEPT !.rc = MQTT_SUCCESS, !.stage = "done"])
                /\ UNCHANGED <<nextPacketId, writeBuf>>
    /\ UNCHANGED <<clientState, isConnected, messageHandlers, readBuf, codecVars>>

\* lines 335-346 and 368: loop test; deadline, packet identifier and
\* serialization of entry itr
mqtt_internal_resubscribe_serialize(c) ==
    /\ pc[c] = "resub_loop"
    /\ LET f == frames[c]
           h == messageHandlers[f.itr]
           packetId == mqtt_get_next_packet_id(nextPacketId)
           ser == mqtt_serialize_subscribe(writeBuf, WriteBufSize, 0, packetId,
                      << [name |-> h.topicName, len |-> h.topicNameLen, qos |-> h.qos] >>,
                      f.serializedLen)
       IN  IF f.itr < f.existingSubCount
           THEN /\ nextPacketId' = packetId
                /\ writeBuf' = ser.buf
                /\ IF MQTT_SUCCESS # ser.rc
                   THEN Goes(c, "resub_restore",
                             [f EXCEPT !.timer = @ + 1, !.rc = ser.rc, !.stage = "serialize"])
                   ELSE Goes(c, "resub_send",
                             [f EXCEPT !.timer = @ + 1, !.serializedLen = ser.serializedLen])
           ELSE /\ Goes(c, "resub_restore", [f EXCEPT !.rc = MQTT_SUCCESS, !.stage = "done"])
                /\ UNCHANGED <<nextPacketId, writeBuf>>
    /\ UNCHANGED <<clientState, isConnected, messageHandlers, readBuf, codecVars>>

\* lines 348-352: mqtt_internal_send_packet for entry itr
mqtt_internal_resubscribe_send(c, rc) ==
    /\ pc[c] = "resub_send"
    /\ LET f == frames[c]
           g == [f EXCEPT !.exch = Append(f.exch,
                     <<"send", f.itr, SubSeq(writeBuf, 1, f.serializedLen), rc, f.timer>>)]
       IN  IF MQTT_SUCCESS # rc
           THEN Goes(c, "resub_restore", [g EXCEPT !.rc = rc, !.stage = "send"])
           ELSE Goes(c, "resub_wait", g)
    /\ UNCHANGED <<clientVars, codecVars>>

\* lines 354-358: mqtt_internal_wait_for_read for entry itr
mqtt_internal_resubscribe_wait(c, rc, pkt) ==
    /\ pc[c] = "resub_wait"
    /\ LET f == frames[c]
           g == [f EXCEPT !.exch = Append(f.exch, <<"wait", f.itr, rc, f.timer>>)]
       IN  IF MQTT_SUCCESS # rc
           THEN /\ Goes(c, "resub_restore", [g EXCEPT !.rc = rc, !.stage = "wait"])
                /\ UNCHANGED readBuf
           ELSE /\ Goes(c, "resub_decode", g)
                /\ readBuf' = InBuffer(pkt, ReadBufSize)
    /\ UNCHANGED <<clientState, isConnected, messageHandlers, nextPacketId, writeBuf,
                   codecVars>>

\* variant: a failed decode does not end the loop
mqtt_internal_resubscribe_decode_GoesOn(c, beyond) ==
    /\ pc[c] = "resub_decode"
    /\ LET f == frames[c]
           d == mqtt_deserialize_suback(0, 1, 0, <<QOS0, QOS0, QOS0>>, readBuf,
                                        ReadBufSize, beyond)
           g == [f EXCEPT !.exch = Append(f.exch,
                     <<"suback", f.itr, d.rc, d.packetId, d.grantedQoSs>>)]
       IN  Goes(c, "resub_loop", [g EXCEPT !.itr = f.itr + 1])
    /\ UNCHANGED <<clientVars, codecVars>>

\* lines 360-366: SUBACK decoding for entry itr, then the next entry
mqtt_internal_resubscribe_decode(c, beyond) ==
    /\ pc[c] = "resub_decode"
    /\ LET f == frames[c]
           d == mqtt_deserialize_suback(0, 1, 0, <<QOS0, QOS0, QOS0>>, readBuf,
                                        ReadBufSize, beyond)
           g == [f EXCEPT !.exch = Append(f.exch,
                     <<"suback", f.itr, d.rc, d.packetId, d.grantedQoSs>>)]
       IN  IF MQTT_SUCCESS # d.rc
           THEN Goes(c, "resub_restore", [g EXCEPT !.rc = d.rc, !.stage = "decode"])
           ELSE Goes(c, "resub_loop", [g EXCEPT !.itr = f.itr + 1])
    /\ UNCHANGED <<clientVars, codecVars>>

\* variant: a failed replay returns without the reverse transition
mqtt_resubscribe_restore_OnlyOnSuccess(c) ==
    /\ pc[c] = "resub_restore"
    /\ LET f == frames[c]
           r == IF MQTT_SUCCESS = f.rc
                THEN mqtt_set_client_state(clientState,
                                           CLIENT_STATE_CONNECTED_RESUBSCRIBE_IN_PROGRESS,
                                           CLIENT_STATE_CONNECTED_IDLE)
                ELSE [rc |-> MQTT_SUCCESS, state |-> clientState]
           resubRc == IF MQTT_SUCCESS = f.rc /\ MQTT_SUCCESS # r.rc THEN r.rc ELSE f.rc
       IN  /\ clientState' = r.state
           /\ Returns(c, CallRecord(c, f, resubRc, TRUE, r.state, messageHandlers))
    /\ UNCHANGED <<isConnected, messageHandlers, nextPacketId, writeBuf, readBuf, codecVars>>

\* lines 409-415: the reverse transition; the call returns
mqtt_resubscribe_restore(c) ==
    /\ pc[c] = "resub_restore"
    /\ LET f == frames[c]
           r == mqtt_set_client_state(clientState,
                                      CLIENT_STATE_CONNECTED_RESUBSCRIBE_IN_PROGRESS,
                                      CLIENT_STATE_CONNECTED_IDLE)
           resubRc == IF MQTT_SUCCESS = f.rc /\ MQTT_SUCCESS # r.rc THEN r.rc ELSE f.rc
       IN  /\ clientState' = r.state
           /\ Returns(c, CallRecord(c, f, resubRc, TRUE, r.state, messageHandlers))
    /\ UNCHANGED <<isConnected, messageHandlers, nextPacketId, writeBuf, readBuf, codecVars>>

(***************************************************************************)
(* The client with its callers.                                            *)
(***************************************************************************)
InitialStates ==
    {CLIENT_STATE_CONNECTED_IDLE, CLIENT_STATE_CONNECTED_WAIT_FOR_CB_RETURN,
     CLIENT_STATE_CONNECTED_YIELD_IN_PROGRESS}

Init ==
    /\ clientState \in InitialStates
    /\ isConnected \in BOOLEAN
    /\ messageHandlers = [i \in HandlerIndex |-> FreeHandler]
    /\ nextPacketId = 1
    /\ writeBuf = [i \in 1..WriteBufSize |-> 0]
    /\ readBuf = [i \in 1..ReadBufSize |-> 0]
    /\ pc = [c \in Callers |-> "ready"]
    /\ frames = [c \in Callers |-> NoFrame]
    /\ last = NoCall
    /\ codecIn = NoCodec
    /\ codecOut = NoCodec

\* the argument lists of mqtt_subscribe that a caller uses: every topic with
\* every QoS, and one list for each argument that may be null
SubscribeArgs ==
    {<<"client", t, q, "handlerFn", "handlerCtx">> : t \in TopicNames, q \in FlowQoS}
        \cup {<<NULL, "a", QOS1, "handlerFn", "handlerCtx">>,
              <<"client", NULL, QOS1, "handlerFn", "handlerCtx">>,
              <<"client", "a", QOS1, NULL, "handlerCtx">>}

SubscribeCall(c, args) ==
    \E a \in args :
        mqtt_subscribe_enter(c, a[1], a[2], IF a[2] = NULL THEN 0 ELSE Len(TopicBytes(a[2])), a[3], a[4], a[5])

ResubscribeCall(c, clients) == \E pClient \in clients : mqtt_resubscribe_enter(c, pClient)

SubscribeSend(c) == \E rc \in {MQTT_SUCCESS} \cup SendErrors : mqtt_internal_subscribe_send(c, rc)

SubscribeWait(c, pkts) ==
    \/ \E pkt \in pkts : mqtt_internal_subscribe_wait(c, MQTT_SUCCESS, pkt)
    \/ \E rc \in WaitErrors : mqtt_internal_subscribe_wait(c, rc, << >>)

SubscribeDecode(c) == \E beyond \in BeyondBytes : mqtt_internal_subscribe_decode(c, beyond)

ResubscribeSend(c) == \E rc \in {MQTT_SUCCESS} \cup SendErrors : mqtt_internal_resubscribe_send(c, rc)

ResubscribeWait(c, pkts) ==
    \/ \E pkt \in pkts : mqtt_internal_resubscribe_wait(c, MQTT_SUCCESS, pkt)
    \/ \E rc \in WaitErrors : mqtt_internal_resubscribe_wait(c, rc, << >>)

ResubscribeDecode(c) == \E beyond \in BeyondBytes : mqtt_internal_resubscribe_decode(c, beyond)

\* one step of caller c, with the arguments and broker answers to choose from
CallerStep(c, args, clients, pkts) ==
    \/ SubscribeCall(c, args)
    \/ mqtt_subscribe_set(c)
    \/ mqtt_internal_subscribe_serialize(c)
    \/ SubscribeSend(c)
    \/ SubscribeWait(c, pkts)
    \/ SubscribeDecode(c)
    \/ mqtt_subscribe_restore(c)
    \/ ResubscribeCall(c, clients)
    \/ mqtt_resubscribe_set(c)
    \/ mqtt_internal_resubscribe_begin(c)
    \/ mqtt_internal_resubscribe_serialize(c)
    \/ ResubscribeSend(c)
    \/ ResubscribeWait(c, pkts)
    \/ ResubscribeDecode(c)
    \/ mqtt_resubscribe_restore(c)

(***************************************************************************)
(* Spec: one execution context uses the client, as section 5 of the design *)
(* asks; every argument list and every broker answer is tried.             *)
(***************************************************************************)
Next == CallerStep(1, SubscribeArgs, {NULL, "client"}, RxPackets)

Spec == Init /\ [][Next]_vars

(***************************************************************************)
(* SpecConc: every caller may call into the same client at any time; the   *)
(* steps of their calls interleave.                                        *)
(***************************************************************************)
ConcSubscribeArgs == {<<"client", "a", QOS1, "handlerFn", "handlerCtx">>}

NextConc == \E c \in Callers : CallerStep(c, ConcSubscribeArgs, {"client"}, {SubackGranted})

SpecConc == Init /\ [][NextConc]_vars

(***************************************************************************)
(* SpecIntr: as Spec, and code outside this file (the disconnect handling  *)
(* of the network layer) may set the client state while a call is between  *)
(* its forward and its reverse transition, which makes the reverse         *)
(* transition fail.                                                        *)
(***************************************************************************)
StateChangedElsewhere ==
    /\ clientState \in {CLIENT_STATE_CONNECTED_SUBSCRIBE_IN_PROGRESS,
                        CLIENT_STATE_CONNECTED_RESUBSCRIBE_IN_PROGRESS}
    /\ clientState' = CLIENT_STATE_DISCONNECTED_ERROR
    /\ last' = NoCall
    /\ UNCHANGED <<isConnected, messageHandlers, nextPacketId, writeBuf, readBuf,
                   pc, frames, codecVars>>

NextIntr == Next \/ StateChangedElsewhere

SpecIntr == Init /\ [][NextIntr]_vars

(***************************************************************************)
(* SpecCodec: the two codec functions alone, each applied once to          *)
(* arguments drawn from bounded sets.                                      *)
(***************************************************************************)
\* the entries of topic lists
TopicEntries == {[name |-> t, len |-> Len(TopicBytes(t)), qos |-> q] : t \in {"a", "a/b"}, q \in {QOS0, QOS1, QOS2}}
\* the long topic alone
LongTopicList == << [name |-> "xx..x", len |-> LongTopicLen, qos |-> QOS1] >>

\* destination capacities: the small ones, and one below / exactly the size
\* of the packet of the long topic (1 + 2 + 2 + 2 + LongTopicLen + 1)
TxCapacities(maxCap) == 0..maxCap \cup {LongTopicLen + 7, LongTopicLen + 8}
\* a destination of the given capacity, every byte 0xAA before the call
TxBuffer(cap) == [i \in 1..cap |-> 170]

\* the arguments of one _mqtt_serialize_subscribe call
SerializeInput(pTxBuf, txBufLen, dup, packetId, topics, serializedLen) ==
    [fn |-> "serialize", pTxBuf |-> pTxBuf, txBufLen |-> txBufLen, dup |-> dup, packetId |-> packetId, topics |-> topics, serializedLen |-> serializedLen]

\* source buffers: a SUBACK or CONNACK header byte, then bytes that serve as
\* length bytes (0, 1, 3, 4, 0x80 = continuation), identifier bytes and return codes
RxHeaders == {144, 32}
RxBytes == {0, 1, 3, 4, 128}

\* the arguments of one _mqtt_deserialize_suback call
DeserializeInput(pPacketId, maxExpectedQoSCount, pGrantedQoSCount, pGrantedQoSs, pRxBuf, beyond) ==
    [fn |-> "deserialize", pPacketId |-> pPacketId, maxExpectedQoSCount |-> maxExpectedQoSCount, pGrantedQoSCount |-> pGrantedQoSCount, pGrantedQoSs |-> pGrantedQoSs, pRxBuf |-> pRxBuf, rxBufLen |-> Len(pRxBuf), beyond |-> beyond]

InitCodec ==
    /\ clientState = CLIENT_STATE_CONNECTED_IDLE
    /\ isConnected = TRUE
    /\ messageHandlers = [i \in HandlerIndex |-> FreeHandler]
    /\ nextPacketId = 1
    /\ writeBuf = [i \in 1..WriteBufSize |-> 0]
    /\ readBuf = [i \in 1..ReadBufSize |-> 0]
    /\ pc = [c \in Callers |-> "ready"]
    /\ frames = [c \in Callers |-> NoFrame]
    /\ last = NoCall
    /\ codecOut = NoCodec
    /\ \/ \E cap \in TxCapacities(MaxTxLen), dup \in {0, 1}, id \in {1, 258}, k \in 0..MaxTopicCount :
            \E l \in [1..k -> TopicEntries] :
                codecIn = SerializeInput(TxBuffer(cap), cap, dup, id, l, 77)
       \/ \E cap \in TxCapacities(MaxTxLen), dup \in {0, 1}, id \in {1, 258} :
            codecIn = SerializeInput(TxBuffer(cap), cap, dup, id, LongTopicList, 77)
       \/ \E l \in [1..1 -> TopicEntries] :
            \/ codecIn = SerializeInput(NullBuf, MaxTxLen, 0, 1, l, 77)
            \/ codecIn = SerializeInput(TxBuffer(MaxTxLen), MaxTxLen, 0, 1, l, NullInt)
       \/ \E m \in 0..MaxExpectedQoS, y \in BeyondBytes :
            codecIn = DeserializeInput(0, m, 0, <<QOS0, QOS0, QOS0>>, << >>, y)
       \/ \E m \in 0..MaxExpectedQoS, y \in BeyondBytes, n \in 1..MaxRxLen, h \in RxHeaders :
            \E t \in [1..(n - 1) -> RxBytes] :
                codecIn = DeserializeInput(0, m, 0, <<QOS0, QOS0, QOS0>>, << h >> \o t, y)
       \/ codecIn = DeserializeInput(NullInt, 1, 0, <<QOS0, QOS0, QOS0>>, InBuffer(SubackGranted, 5), 0)
       \/ codecIn = DeserializeInput(0, 1, NullInt, <<QOS0, QOS0, QOS0>>, InBuffer(SubackGranted, 5), 0)
       \/ codecIn = DeserializeInput(0, 1, 0, NullBuf, InBuffer(SubackGranted, 5), 0)

CallSerializeSubscribe ==
    /\ codecIn.fn = "serialize"
    /\ codecOut = NoCodec
    /\ codecOut' = [fn |-> "serialize",
                    res |-> mqtt_serialize_subscribe(codecIn.pTxBuf, codecIn.txBufLen, codecIn.dup, codecIn.packetId, codecIn.topics, codecIn.serializedLen)]
    /\ UNCHANGED <<clientVars, pc, frames, last, codecIn>>

CallDeserializeSuback ==
    /\ codecIn.fn = "deserialize"
    /\ codecOut = NoCodec
    /\ codecOut' = [fn |-> "deserialize",
                    res |-> mqtt_deserialize_suback(codecIn.pPacketId, codecIn.maxExpectedQoSCount, codecIn.pGrantedQoSCount, codecIn.pGrantedQoSs, codecIn.pRxBuf, codecIn.rxBufLen, codecIn.beyond)]
    /\ UNCHANGED <<clientVars, pc, frames, last, codecIn>>

NextCodec == CallSerializeSubscribe \/ CallDeserializeSuback

SpecCodec == InitCodec /\ [][NextCodec]_vars

(***************************************************************************)
(* Properties.  `last` is the record of the call that returned in the step *)
(* leading to the current state, so the client variables next to it are    *)
(* the client as that call left it.                                        *)
(***************************************************************************)
Occupied(handlers, i) == handlers[i].topicName # NULL
TableFull(handlers) == \A i \in HandlerIndex : Occupied(handlers, i)
NumOccupied(handlers) == Cardinality({i \in HandlerIndex : Occupied(handlers, i)})

\* the result code carried by an event of an exchange
EventRc(e) == IF e[1] = "send" THEN e[4] ELSE e[3]
SendEvents(exch) == {n \in 1..Len(exch) : exch[n][1] = "send"}
FailedEvents(exch) == {n \in 1..Len(exch) : EventRc(exch[n]) # MQTT_SUCCESS}
Least(S) == CHOOSE n \in S : \A m \in S : n <= m
\* send, wait and decode of entry i all took place and succeeded
CompleteExchange(exch, i) ==
    \A kind \in {"send", "wait", "suback"} :
        \E n \in 1..Len(exch) :
            exch[n][1] = kind /\ exch[n][2] = i /\ EventRc(exch[n]) = MQTT_SUCCESS

\* size of the remaining-length field, by the protocol's thresholds
LengthFieldSize(rem_len) ==
    IF rem_len < 128 THEN 1 ELSE IF rem_len < 16384 THEN 2 ELSE IF rem_len < 2097152 THEN 3 ELSE 4
RECURSIVE TopicBytesTotal(_)
TopicBytesTotal(topics) ==
    IF topics = << >> THEN 0 ELSE Head(topics).len + 3 + TopicBytesTotal(Tail(topics))
\* 1 + size of the length field + remaining length, for a list of topics
PacketSize(topics) == 1 + LengthFieldSize(2 + TopicBytesTotal(topics)) + 2 + TopicBytesTotal(topics)

InFlight(c) ==
    pc[c] \in {"sub_serialize", "sub_send", "sub_wait", "sub_decode", "sub_restore",
               "resub_begin", "resub_loop", "resub_send", "resub_wait", "resub_decode",
               "resub_restore"}

\* in this step caller c makes the call `op`: it returns at once or reaches
\* the forward transition
CallStep(c, op) ==
    /\ pc[c] = "ready"
    /\ \/ pc'[c] = (IF op = "subscribe" THEN "sub_set" ELSE "resub_set")
       \/ last'.op = op /\ last'.caller = c

\* the arguments of the call made in this step
CallArgs(c) == IF last'.op # "none" THEN last' ELSE frames'[c]

\* the error the preconditions of `op` give for these arguments, or "none"
PreconditionError(op, a, connected, state) ==
    IF a.pClient = NULL \/ (op = "subscribe" /\ (a.pTopicName = NULL \/ a.pApplicationHandler = NULL))
    THEN NULL_VALUE_ERROR
    ELSE IF ~connected
    THEN NETWORK_DISCONNECTED_ERROR
    ELSE IF state # CLIENT_STATE_CONNECTED_IDLE
            /\ ~(op = "subscribe" /\ state = CLIENT_STATE_CONNECTED_WAIT_FOR_CB_RETURN)
    THEN MQTT_CLIENT_NOT_IDLE_ERROR
    ELSE "none"

\* C1: a mqtt_subscribe call that made the forward transition leaves the client,
\* on whatever path it returns, in the state captured before the call, which
\* was idle or waiting-for-callback-return.
C1_SubscribeRestoresState ==
    (last.op = "subscribe" /\ last.forward) =>
        /\ last.stateBefore \in {CLIENT_STATE_CONNECTED_IDLE, CLIENT_STATE_CONNECTED_WAIT_FOR_CB_RETURN}
        /\ clientState = last.stateBefore

\* a subscribe called from waiting-for-callback-return whose SUBACK did not decode
C1_Witness ==
    /\ last.op = "subscribe" /\ last.forward
    /\ last.stage = "decode" /\ last.rc = MQTT_FAILURE
    /\ last.stateBefore = CLIENT_STATE_CONNECTED_WAIT_FOR_CB_RETURN
    /\ clientState = CLIENT_STATE_CONNECTED_WAIT_FOR_CB_RETURN

\* C2: a mqtt_resubscribe call that made the forward transition leaves the
\* client idle, whether the replay completed or stopped at some entry; and
\* whenever no call is between its forward and its reverse transition the
\* client state is neither subscribe-in-progress nor resubscribe-in-progress.
C2_ResubscribeRestoresIdle ==
    /\ (last.op = "resubscribe" /\ last.forward) => clientState = CLIENT_STATE_CONNECTED_IDLE
    /\ (\A c \in Callers : ~InFlight(c)) =>
            clientState \notin {CLIENT_STATE_CONNECTED_SUBSCRIBE_IN_PROGRESS,
                                CLIENT_STATE_CONNECTED_RESUBSCRIBE_IN_PROGRESS}

\* a resubscribe whose wait for the SUBACK of the second entry timed out
C2_Witness ==
    /\ last.op = "resubscribe" /\ last.forward
    /\ last.stage = "wait" /\ last.rc = MQTT_REQUEST_TIMEOUT_ERROR /\ last.itr = 1
    /\ clientState = CLIENT_STATE_CONNECTED_IDLE

\* C3: a mqtt_subscribe call with non-null arguments on a connected client
\* whose state is neither idle nor waiting-for-callback-return returns
\* MQTT_CLIENT_NOT_IDLE_ERROR in that very step: no packet identifier is drawn,
\* no buffer is written, no send and no wait take place.
C3_NotIdleNoActivity ==
    [][\A c \in Callers :
        (/\ CallStep(c, "subscribe")
         /\ PreconditionError("subscribe", CallArgs(c), TRUE, CLIENT_STATE_CONNECTED_IDLE) = "none"
         /\ isConnected
         /\ clientState \notin {CLIENT_STATE_CONNECTED_IDLE, CLIENT_STATE_CONNECTED_WAIT_FOR_CB_RETURN})
        => (/\ last'.op = "subscribe" /\ last'.caller = c
            /\ last'.rc = MQTT_CLIENT_NOT_IDLE_ERROR
            /\ last'.exch = << >>
            /\ pc'[c] = "ready"
            /\ UNCHANGED clientVars)]_vars

\* a subscribe refused while another caller's subscribe is in progress
C3_Witness ==
    /\ last.op = "subscribe" /\ last.rc = MQTT_CLIENT_NOT_IDLE_ERROR
    /\ last.stateBefore = CLIENT_STATE_CONNECTED_SUBSCRIBE_IN_PROGRESS
    /\ clientState = CLIENT_STATE_CONNECTED_SUBSCRIBE_IN_PROGRESS
    /\ isConnected
    /\ \E d \in Callers : d # last.caller /\ pc[d] = "sub_wait"

C5_StopsAtFirstFailure ==
    (last.op = "resubscribe" /\ last.forward /\ FailedEvents(last.exch) # {}) =>
        LET n0 == Least(FailedEvents(last.exch))
            j == last.exch[n0][2]
        IN  /\ last.rc = EventRc(last.exch[n0])
            /\ n0 = Len(last.exch)
            /\ \A i \in 0..(j - 1) : CompleteExchange(last.exch, i)
            /\ \A n \in 1..Len(last.exch) : last.exch[n][2] <= j
            /\ Cardinality({n \in SendEvents(last.exch) : last.exch[n][2] = j}) <= 1

\* three entries, the SUBACK of the second does not decode
C5_Witness ==
    /\ last.op = "resubscribe" /\ last.forward
    /\ last.existingSubCount = 3
    /\ last.rc = MQTT_FAILURE
    /\ CompleteExchange(last.exch, 0)
    /\ last.exch[Len(last.exch)][1] = "suback" /\ last.exch[Len(last.exch)][2] = 1

\* C6: a subscribe or resubscribe call that fails a precondition returns in
\* that very step with NULL_VALUE_ERROR for a null argument, else
\* NETWORK_DISCONNECTED_ERROR for a client not connected, else
\* MQTT_CLIENT_NOT_IDLE_ERROR for a state not admitted, and leaves the client
\* state, the table, the packet-identifier counter and the buffers unchanged.
C6_PreconditionFailure ==
    [][\A c \in Callers : \A op \in {"subscribe", "resubscribe"} :
        (CallStep(c, op) /\ PreconditionError(op, CallArgs(c), isConnected, clientState) # "none")
        => (/\ last'.op = op /\ last'.caller = c
            /\ last'.rc = PreconditionError(op, CallArgs(c), isConnected, clientState)
            /\ ~last'.forward
            /\ pc'[c] = "ready"
            /\ UNCHANGED clientVars)]_vars

\* a resubscribe with a null client on a client that is not connected either
C6_Witness ==
    /\ last.op = "resubscribe" /\ last.pClient = NULL /\ ~isConnected
    /\ last.rc = NULL_VALUE_ERROR
    /\ ~last.forward

\* C7: with several callers on the same client, at most one is between its
\* forward transition and its return at any time; a caller that calls or
\* attempts its forward transition meanwhile returns an error in that step
\* and changes nothing; and a table slot is only ever written while free.
C7_OneInFlight ==
    [][/\ Cardinality({c \in Callers : InFlight(c)}) <= 1
       /\ Cardinality({c \in Callers : InFlight(c)'}) <= 1
       /\ \A c \in Callers :
            (/\ \E d \in Callers : d # c /\ InFlight(d)
             /\ pc[c] \in {"ready", "sub_set", "resub_set"}
             /\ (pc'[c] # pc[c] \/ (last'.op # "none" /\ last'.caller = c)))
            => (/\ last'.op # "none" /\ last'.caller = c
                /\ last'.rc \in {MQTT_CLIENT_NOT_IDLE_ERROR, MQTT_UNEXPECTED_CLIENT_STATE_ERROR}
                /\ pc'[c] = "ready"
                /\ UNCHANGED clientVars)
       /\ \A i \in HandlerIndex :
            messageHandlers'[i] # messageHandlers[i] => ~Occupied(messageHandlers, i)]_vars

\* a caller whose forward transition failed while another caller waits for its SUBACK
C7_Witness ==
    /\ last.op = "subscribe" /\ last.stage = "set"
    /\ last.rc = MQTT_UNEXPECTED_CLIENT_STATE_ERROR
    /\ \E d \in Callers : d # last.caller /\ pc[d] = "sub_wait"

\* C8: the occupied slots are always the indices 0..m-1 for some m; a
\* successful subscribe fills exactly the lowest free index; and the indices
\* below the first free slot, which resubscribe replays, are all the occupied ones.
C8_NoHoles ==
    /\ \A i, j \in HandlerIndex : (i < j /\ Occupied(messageHandlers, j)) => Occupied(messageHandlers, i)
    /\ (last.op = "subscribe" /\ last.stage = "registered") =>
        /\ last.index = NumOccupied(last.handlersBefore)
        /\ Occupied(messageHandlers, last.index)
        /\ \A i \in HandlerIndex \ {last.index} : messageHandlers[i] = last.handlersBefore[i]
    /\ {i \in HandlerIndex : Occupied(messageHandlers, i)}
            = 0..(mqtt_get_free_message_handler_index(messageHandlers) - 1)

\* the second subscription has just been registered
C8_Witness ==
    /\ last.op = "subscribe" /\ last.stage = "registered" /\ last.rc = MQTT_SUCCESS
    /\ last.index = 1
    /\ NumOccupied(messageHandlers) = 2

\* C9: when the packet size 1 + size of the length field + remaining length
\* exceeds the capacity, _mqtt_serialize_subscribe returns
\* MQTT_TX_BUFFER_TOO_SHORT_ERROR and leaves every byte of the destination and
\* the output length as they were.
C9_TooShortWritesNothing ==
    (/\ codecOut.fn = "serialize"
     /\ codecIn.pTxBuf # NullBuf /\ codecIn.serializedLen # NullInt
     /\ PacketSize(codecIn.topics) > codecIn.txBufLen) =>
        /\ codecOut.res.rc = MQTT_TX_BUFFER_TOO_SHORT_ERROR
        /\ codecOut.res.buf = codecIn.pTxBuf
        /\ codecOut.res.serializedLen = codecIn.serializedLen

\* a topic list that misses the capacity by one byte
C9_Witness ==
    /\ codecOut.fn = "serialize"
    /\ Len(codecIn.topics) >= 1
    /\ PacketSize(codecIn.topics) = codecIn.txBufLen + 1
    /\ codecOut.res.rc = MQTT_TX_BUFFER_TOO_SHORT_ERROR
    /\ codecOut.res.buf = TxBuffer(codecIn.txBufLen)

\* C10: _mqtt_deserialize_suback called with maximum M stores at most M
\* granted-QoS entries, and when it succeeds the count it reports is at most M.
C10_AtMostMaxEntries ==
    codecOut.fn = "deserialize" =>
        /\ Len(codecOut.res.grantedQoSs) <= codecIn.maxExpectedQoSCount
        /\ codecOut.res.rc = MQTT_SUCCESS => codecOut.res.count <= codecIn.maxExpectedQoSCount

\* C11: called with non-null output pointers on a source buffer of fewer than
\* 5 bytes, _mqtt_deserialize_suback returns MQTT_RX_BUFFER_TOO_SHORT_ERROR
\* whatever the bytes are, reads none of them and stores nothing.
C11_ShortBufferRejected ==
    (/\ codecOut.fn = "deserialize"
     /\ codecIn.pPacketId # NullInt /\ codecIn.pGrantedQoSCount # NullInt
     /\ codecIn.pGrantedQoSs # NullBuf
     /\ codecIn.rxBufLen < 5) =>
        /\ codecOut.res.rc = MQTT_RX_BUFFER_TOO_SHORT_ERROR
        /\ codecOut.res.reads = {}
        /\ codecOut.res.grantedQoSs = << >>
        /\ codecOut.res.packetId = codecIn.pPacketId
        /\ codecOut.res.count = codecIn.pGrantedQoSCount

\* four bytes that begin like a well-formed SUBACK
C11_Witness ==
    /\ codecOut.fn = "deserialize"
    /\ codecIn.rxBufLen = 4
    /\ codecIn.pRxBuf = << 144, 3, 0, 1 >>
    /\ codecOut.res.rc = MQTT_RX_BUFFER_TOO_SHORT_ERROR

\* C12: called with non-null output pointers on a source buffer of at least
\* 5 bytes whose first byte has a high nibble other than SUBACK,
\* _mqtt_deserialize_suback returns MQTT_FAILURE and stores neither a packet
\* identifier nor a granted-QoS entry.
C12_WrongTypeRejected ==
    (/\ codecOut.fn = "deserialize"
     /\ codecIn.pPacketId # NullInt /\ codecIn.pGrantedQoSCount # NullInt
     /\ codecIn.pGrantedQoSs # NullBuf
     /\ codecIn.rxBufLen >= 5
     /\ codecIn.pRxBuf[1] \div 16 # 9) =>
        /\ codecOut.res.rc = MQTT_FAILURE
        /\ codecOut.res.packetId = codecIn.pPacketId
        /\ codecOut.res.count = codecIn.pGrantedQoSCount
        /\ codecOut.res.grantedQoSs = << >>
        /\ codecOut.res.reads = {0}

\* a CONNACK header in front of what would be a well-formed SUBACK body
C12_Witness ==
    /\ codecOut.fn = "deserialize"
    /\ codecIn.pRxBuf = << 32, 3, 0, 1, 1 >>
    /\ codecOut.res.rc = MQTT_FAILURE
    /\ codecOut.res.grantedQoSs = << >>

\* the SUBSCRIBE packet as the protocol lays it out: the remaining length in
\* 7-bit groups, least significant first, every group but the last flagged 0x80
WireLength(n) ==
    IF n < 128 THEN << n >>
    ELSE IF n < 16384 THEN << 128 + (n % 128), n \div 128 >>
    ELSE << 128 + (n % 128), 128 + ((n \div 128) % 128), n \div 16384 >>
BigEndian16(v) == << v \div 256, v % 256 >>
RECURSIVE TopicsWire(_)
TopicsWire(topics) ==
    IF topics = << >> THEN << >>
    ELSE BigEndian16(Head(topics).len)
            \o SubSeq(TopicBytes(Head(topics).name), 1, Head(topics).len)
            \o << Head(topics).qos >>
            \o TopicsWire(Tail(topics))
SubscribeWire(header, packetId, topics) ==
    << header >> \o WireLength(2 + TopicBytesTotal(topics)) \o BigEndian16(packetId)
        \o TopicsWire(topics)
\* a serialize call with non-null pointers whose packet fits the capacity
SerializeFits ==
    /\ codecOut.fn = "serialize"
    /\ codecIn.pTxBuf # NullBuf /\ codecIn.serializedLen # NullInt
    /\ PacketSize(codecIn.topics) <= codecIn.txBufLen
\* the call succeeded and left in the destination the packet that starts with
\* `header`, then the bytes the destination held before; the length is the packet's
SerializedAs(header) ==
    LET wire == SubscribeWire(header, codecIn.packetId, codecIn.topics)
    IN  /\ codecOut.res.rc = MQTT_SUCCESS
        /\ codecOut.res.serializedLen = Len(wire)
        /\ Len(wire) = PacketSize(codecIn.topics)
        /\ Len(codecOut.res.buf) = codecIn.txBufLen
        /\ \A i \in 1..codecIn.txBufLen :
                codecOut.res.buf[i] = (IF i <= Len(wire) THEN wire[i] ELSE codecIn.pTxBuf[i])

C14_ResubscribeOnlyFromIdle ==
    /\ (/\ last.op = "resubscribe" /\ last.pClient # NULL /\ isConnected
        /\ last.stateBefore # CLIENT_STATE_CONNECTED_IDLE) =>
            /\ last.rc = MQTT_CLIENT_NOT_IDLE_ERROR
            /\ ~last.forward
            /\ last.exch = << >>
            /\ last.stateAfter = last.stateBefore
            /\ clientState = last.stateBefore
            /\ messageHandlers = last.handlersBefore
    /\ (/\ last.op = "resubscribe" /\ last.pClient # NULL /\ isConnected
        /\ last.stateBefore = CLIENT_STATE_CONNECTED_IDLE) =>
            /\ last.forward
            /\ last.rc # MQTT_CLIENT_NOT_IDLE_ERROR
    /\ (/\ last.op = "subscribe" /\ isConnected
        /\ last.pClient # NULL /\ last.pTopicName # NULL /\ last.pApplicationHandler # NULL
        /\ last.stateBefore \in {CLIENT_STATE_CONNECTED_IDLE,
                                 CLIENT_STATE_CONNECTED_WAIT_FOR_CB_RETURN}) =>
            /\ last.forward
            /\ last.rc # MQTT_CLIENT_NOT_IDLE_ERROR

\* a resubscribe refused on a connected client that waits for a callback to return
C14_Witness ==
    /\ last.op = "resubscribe" /\ last.pClient # NULL /\ isConnected
    /\ last.stateBefore = CLIENT_STATE_CONNECTED_WAIT_FOR_CB_RETURN
    /\ last.rc = MQTT_CLIENT_NOT_IDLE_ERROR
    /\ clientState = CLIENT_STATE_CONNECTED_WAIT_FOR_CB_RETURN

\* the k-th event of an exchange trace is the send / wait / decode of entry i
IsSend(e, i) == e[1] = "send" /\ e[2] = i
IsWait(e, i) == e[1] = "wait" /\ e[2] = i
IsSuback(e, i) == e[1] = "suback" /\ e[2] = i
\* the packet identifier inside a sent SUBSCRIBE with a one-byte length field
SentPacketId(e) == e[3][3] * 256 + e[3][4]

\* C15: a successful resubscribe over k occupied entries performs exactly k
\* exchanges; the events are send, wait, decode of entry 0, then of entry 1,
\* and so on, each send carrying the entry's stored topic and QoS, the
\* packet identifier drawn next after the previous one and the deadline
\* built for that entry; no entry is sent twice.  A subscribe call sends at
\* most one SUBSCRIBE.
C15_OneExchangePerEntry ==
    /\ (last.op = "resubscribe" /\ last.forward /\ last.rc = MQTT_SUCCESS) =>
        LET k == NumOccupied(last.handlersBefore)
            x == last.exch
        IN  /\ Len(x) = 3 * k
            /\ Cardinality(SendEvents(x)) = k
            /\ \A i \in 0..(k - 1) :
                LET h == last.handlersBefore[i]
                    snd == x[3 * i + 1]
                IN  /\ IsSend(snd, i) /\ IsWait(x[3 * i + 2], i) /\ IsSuback(x[3 * i + 3], i)
                    /\ \A n \in (3 * i + 1)..(3 * i + 3) : EventRc(x[n]) = MQTT_SUCCESS
                    /\ snd[3] = SubscribeWire(130, SentPacketId(snd),
                                    << [name |-> h.topicName, len |-> h.topicNameLen, qos |-> h.qos] >>)
                    /\ snd[5] = i + 1 /\ x[3 * i + 2][4] = i + 1
                    /\ i > 0 => SentPacketId(snd) = mqtt_get_next_packet_id(SentPacketId(x[3 * i - 2]))
            /\ k > 0 => nextPacketId = SentPacketId(x[3 * k - 2])
    /\ last.op = "subscribe" =>
        /\ Cardinality(SendEvents(last.exch)) <= 1
        /\ \A n \in SendEvents(last.exch) :
                /\ n = 1
                /\ last.exch[n][3] = SubscribeWire(130, SentPacketId(last.exch[n]),
                        << [name |-> last.pTopicName, len |-> last.topicNameLen, qos |-> last.qos] >>)
                /\ last.exch[n][5] = 1

\* a successful resubscribe over three entries that do not all ask for the same QoS
C15_Witness ==
    /\ last.op = "resubscribe" /\ last.forward /\ last.rc = MQTT_SUCCESS
    /\ NumOccupied(last.handlersBefore) = 3
    /\ Len(last.exch) = 9
    /\ last.handlersBefore[0].qos # last.handlersBefore[1].qos

\* the return codes the decoded SUBACK of a call carried
SubackCodes(exch) == {exch[n][5] : n \in {m \in 1..Len(exch) : exch[m][1] = "suback"}}
\* the requested-QoS byte of a sent single-topic SUBSCRIBE: its last byte
SentQoS(e) == e[3][Len(e[3])]

\* C16: after a successful subscribe with requested QoS q the slot it
\* registered holds q with the call's topic, length, handler and context,
\* whatever return code the SUBACK carried; and every SUBSCRIBE a resubscribe
\* sends for an entry requests the QoS stored in that entry.
C16_StoresRequestedQoS ==
    /\ (last.op = "subscribe" /\ last.rc = MQTT_SUCCESS) =>
        /\ last.stage = "registered"
        /\ messageHandlers[last.index] =
                [topicName |-> last.pTopicName, topicNameLen |-> last.topicNameLen,
                 qos |-> last.qos,
                 pApplicationHandler |-> last.pApplicationHandler,
                 pApplicationHandlerData |-> last.pApplicationHandlerData]
    /\ last.op = "resubscribe" =>
        \A n \in SendEvents(last.exch) :
            SentQoS(last.exch[n]) = last.handlersBefore[last.exch[n][2]].qos

\* a subscribe asking for QoS1 that the broker refused (0x80), yet registered
C16_Witness ==
    /\ last.op = "subscribe" /\ last.rc = MQTT_SUCCESS
    /\ last.qos = QOS1
    /\ SubackCodes(last.exch) = {<< 128 >>}
    /\ messageHandlers[last.index].qos = QOS1

\* the events of a trace that are successfully decoded SUBACKs
DecodedSubacks(exch) == {n \in 1..Len(exch) : exch[n][1] = "suback" /\ exch[n][3] = MQTT_SUCCESS}
\* the SUBACK at n carries another packet identifier than the SUBSCRIBE sent before it
IdMismatch(exch, n) == n >= 3 /\ exch[n - 2][1] = "send" /\ exch[n][4] # SentPacketId(exch[n - 2])

\* C17: a subscribe whose SUBACK decodes successfully returns success and
\* registers its handler, and a resubscribe all of whose sends, waits and
\* decodes succeed returns success, whether or not the packet identifier of
\* a SUBACK is the one sent in the SUBSCRIBE before it.
C17_PacketIdNotCompared ==
    /\ (last.op = "subscribe" /\ last.forward /\ DecodedSubacks(last.exch) # {}) =>
        /\ last.rc = MQTT_SUCCESS
        /\ last.stage = "registered"
        /\ Occupied(messageHandlers, last.index)
        /\ ~Occupied(last.handlersBefore, last.index)
    /\ (/\ last.op = "resubscribe" /\ last.forward
        /\ FailedEvents(last.exch) = {} /\ last.stage # "serialize") =>
        /\ last.rc = MQTT_SUCCESS
        /\ Cardinality(DecodedSubacks(last.exch)) = NumOccupied(last.handlersBefore)

\* a subscribe that sent identifier 1, received a SUBACK for identifier 2 and registered
C17_Witness ==
    /\ last.op = "subscribe" /\ last.rc = MQTT_SUCCESS /\ last.stage = "registered"
    /\ Len(last.exch) = 3
    /\ SentPacketId(last.exch[1]) = 1
    /\ last.exch[3][4] = 2
    /\ IdMismatch(last.exch, 3)

\* a resubscribe that went through although a SUBACK carried another identifier
C17_WitnessResubscribe ==
    /\ last.op = "resubscribe" /\ last.rc = MQTT_SUCCESS
    /\ \E n \in DecodedSubacks(last.exch) : IdMismatch(last.exch, n)

\* the reverse transition of the call that returned failed: the state it
\* found was not the in-progress state it expected
ReverseFailed == last.stateAfter = CLIENT_STATE_DISCONNECTED_ERROR

\* C18: a subscribe or resubscribe that made its forward transition returns
\* the error of the inner operation when that failed, which is the error of
\* the first failed step, even if the reverse transition fails too; the
\* error of the reverse transition only when the inner operation succeeded;
\* and success exactly when both succeeded.
C18_FirstErrorReturned ==
    last.op \in {"subscribe", "resubscribe"} /\ last.forward =>
        /\ last.innerRc # MQTT_SUCCESS => last.rc = last.innerRc
        /\ FailedEvents(last.exch) # {} =>
                last.innerRc = EventRc(last.exch[Least(FailedEvents(last.exch))])
        /\ last.stage \in {"serialize", "table"} => last.innerRc # MQTT_SUCCESS
        /\ (last.innerRc = MQTT_SUCCESS /\ ReverseFailed) =>
                last.rc = MQTT_UNEXPECTED_CLIENT_STATE_ERROR
        /\ last.rc = MQTT_SUCCESS <=>
                (/\ last.stage \in {"registered", "done"}
                 /\ FailedEvents(last.exch) = {}
                 /\ ~ReverseFailed)

\* the wait timed out and then the reverse transition failed as well
C18_Witness ==
    /\ last.op = "subscribe" /\ last.forward
    /\ last.stage = "wait" /\ last.innerRc = MQTT_REQUEST_TIMEOUT_ERROR
    /\ ReverseFailed
    /\ last.rc = MQTT_REQUEST_TIMEOUT_ERROR

\* the handler was registered and then the reverse transition failed
C18_WitnessReverseOnly ==
    /\ last.op = "subscribe" /\ last.forward
    /\ last.stage = "registered" /\ last.innerRc = MQTT_SUCCESS
    /\ ReverseFailed
    /\ last.rc = MQTT_UNEXPECTED_CLIENT_STATE_ERROR

\* the slots whose content differs between two tables
ChangedSlots(before, after) == {i \in HandlerIndex : after[i] # before[i]}

\* C19: a step changes the table only if it is the registration of a
\* subscribe whose serialization, free-slot search, send, wait and decode
\* all succeeded, and then exactly one slot changes, which was free; a
\* subscribe whose inner operation failed and every resubscribe return with
\* the table as it was when the call made its forward transition.
C19_TableChangesOnlyOnSuccess ==
    [][/\ messageHandlers' # messageHandlers =>
            \E c \in Callers :
                /\ frames[c].op = "subscribe"
                /\ pc[c] = "sub_decode" /\ pc'[c] = "sub_restore"
                /\ frames'[c].stage = "registered" /\ frames'[c].rc = MQTT_SUCCESS
                /\ Len(frames'[c].exch) = 3 /\ FailedEvents(frames'[c].exch) = {}
                /\ ChangedSlots(messageHandlers, messageHandlers') = {frames[c].index}
                /\ ~Occupied(messageHandlers, frames[c].index)
                /\ Occupied(messageHandlers', frames[c].index)
       /\ (last'.op = "subscribe" /\ last'.forward /\ last'.innerRc # MQTT_SUCCESS) =>
            /\ messageHandlers' = last'.handlersBefore
            /\ last'.handlersAfter = last'.handlersBefore
       /\ (last'.op = "subscribe" /\ last'.forward /\ last'.innerRc = MQTT_SUCCESS) =>
            Cardinality(ChangedSlots(last'.handlersBefore, messageHandlers')) = 1
       /\ (last'.op \in {"subscribe", "resubscribe"} /\ ~last'.forward) =>
            messageHandlers' = messageHandlers
       /\ last'.op = "resubscribe" =>
            /\ messageHandlers' = last'.handlersBefore
            /\ last'.handlersAfter = last'.handlersBefore]_vars

\* a subscribe whose SUBACK did not decode, made with one slot already
\* occupied, has returned and the table is as before
C19_Witness ==
    /\ last.op = "subscribe" /\ last.forward
    /\ last.stage = "decode" /\ last.rc = MQTT_FAILURE
    /\ NumOccupied(last.handlersBefore) = 1
    /\ messageHandlers = last.handlersBefore

\* C20: _mqtt_deserialize_suback reads no byte at an offset >= rxBufLen,
\* whatever the buffer holds, and fails when the remaining-length field
\* declares a payload that ends past the buffer.
C20_ReadsWithinBuffer ==
    codecOut.fn = "deserialize" =>
        /\ \A off \in codecOut.res.reads : off < codecIn.rxBufLen
        /\ (/\ codecIn.rxBufLen >= 5
            /\ codecIn.pRxBuf[1] \div 16 = 9
            /\ codecIn.pPacketId # NullInt /\ codecIn.pGrantedQoSCount # NullInt
            /\ codecIn.pGrantedQoSs # NullBuf
            /\ LET dec == mqtt_internal_decode_remaining_length_from_buffer(
                              codecIn.pRxBuf, codecIn.rxBufLen, 0, 1)
               IN  dec.rc = MQTT_SUCCESS
                   /\ 1 + dec.readBytesLen + dec.decodedLen > codecIn.rxBufLen)
            => codecOut.res.rc # MQTT_SUCCESS

====
